---- MODULE Spec2Model ----
(***************************************************************************)
(* Model of serverless-cloudwatch-logs-exporter.py: lambda_handler drives  *)
(* export_cw_logs_to_s3 once per filtered log group; each export checks    *)
(* the bucket, submits one export task and blocks in get_tsk_status, the   *)
(* polling loop with the doubling counter t.                               *)
(***************************************************************************)
EXTENDS Integers, Sequences, FiniteSets, TLC

\* ------------------------------------------------------------------ bounds
MaxGroups  == 2      \* longest log-group listing returned by the provider
MaxTimeOut == 12     \* largest configured time_out explored
MaxRetention == 2    \* largest configured retention_days explored besides the default
MaxRuns    == 2      \* invocations of lambda_handler in a row
MaxTicks   == 2      \* times the wall clock is seen to advance

\* -------------------------------------------------------- program constants
DefaultTimeOut == 300          \* get_tsk_status: if not time_out: time_out = 300
BackoffSeed    == 3            \* get_tsk_status: t = 3
DefaultRetention == 90         \* global_vars["retention_days"], export: if not retention_days
DaySeconds     == 86400        \* datetime.timedelta(days = 1) in seconds

cw_logs_to_export == {"lg_a", "lg_b"}      \* global_vars["cw_logs_to_export"]
GroupNames        == {"lg_a", "lg_b", "lg_x"}

\* provider status codes of an export task
StatusCodes == {"PENDING", "RUNNING", "COMPLETED", "FAILED", "CANCELLED"}
\* ClientError codes head_bucket can raise
BucketErrors == {"404", "403"}
\* exceptions create_export_task / describe_export_tasks can raise
ProviderErrors == {"LimitExceededException"}

\* configured values of time_out; 0 is the value line 279 takes as missing
TimeOuts == 0..MaxTimeOut

\* configured values of retention_days; 0 is the value line 227 takes as missing
Retentions == (0..MaxRetention) \cup {DefaultRetention}

\* readings of datetime.datetime.now(): days since the epoch, second of the
\* day and microsecond of the wall clock (the local zone of the runtime is UTC)
ClockStarts == {[day |-> 20000, sec |-> 43200, us |-> 0],
                [day |-> 20000, sec |-> 86399, us |-> 999600]}
\* microseconds the clock can be seen to advance by between two readings
Elapsed == {500, 2000000}

VARIABLES
    time_out,      \* global_vars["time_out"] as configured
    lgs,           \* get_cloudwatch_log_groups: names of the listed groups
    f_lgs,         \* filter_logs_to_export: names of the filtered groups
    pc,            \* position in lambda_handler / export_cw_logs_to_s3
    idx,           \* position of the for loop in f_lgs (1-based)
    handler_resp,  \* lambda_handler's resp_data
    resp,          \* export_cw_logs_to_s3: result of does_bucket_exists
    export_resp,   \* export_cw_logs_to_s3's resp_data
    p_pc,          \* position in get_tsk_status
    tsk_id,        \* get_tsk_status: tsk_id
    p_time_out,    \* get_tsk_status: local time_out after defaulting
    t,             \* get_tsk_status: backoff counter
    tsk_resp,      \* get_tsk_status's resp_data
    next_task,     \* provider: id the next created export task gets
    t_hist,        \* history: value of t at each poll of the current task
    sleeps,        \* history: durations passed to time.sleep for the current task
    last_info,     \* history: tsk_info returned by the latest poll (NoInfo if it raised)
    last_err,      \* history: exception raised by the latest poll ("" if none)
    log,           \* history: the calls made so far, [op, pos, res], pos the loop position
    tsk_results,   \* history: what get_tsk_status returned per loop position
    retention_days,\* global_vars["retention_days"] as configured
    clock,         \* the wall clock datetime.datetime.now() reads
    ticks,         \* history: how often the clock advanced
    window,        \* export_cw_logs_to_s3: f_time and t_time
    next_uuid,     \* uuid: what tells the next uuid4 from the earlier ones
    active,        \* provider: ids of the export tasks that are pending or running
    requests,      \* provider: the create_export_task requests received, all runs
    run            \* which invocation of lambda_handler this is

vars == <<time_out, lgs, f_lgs, pc, idx, handler_resp, resp, export_resp,
          p_pc, tsk_id, p_time_out, t, tsk_resp, next_task,
          t_hist, sleeps, last_info, last_err, log, tsk_results,
          retention_days, clock, ticks, window, next_uuid, active, requests, run>>

\* ------------------------------------------------------------------ values
NoMsg  == [kind |-> "", tsk |-> 0, detail |-> ""]          \* error_message ''
NoInfo == [taskId |-> 0, code |-> ""]                      \* tsk_info {}
NoTask == [status |-> FALSE, tsk_info |-> NoInfo, error_message |-> NoMsg,
           called |-> FALSE]

Positions == 1..MaxGroups

\* an epoch time in milliseconds, s * 1000 + ms, kept as the pair to stay
\* within the range of the integers
NoWindow == [f_time |-> [s |-> 0, ms |-> 0], t_time |-> [s |-> 0, ms |-> 0]]

\* sequences over S of length <= n without repeated elements
SeqsNoDup(S, n) ==
    UNION {{q \in [1..k -> S] : \A i, j \in 1..k : i # j => q[i] # q[j]} : k \in 0..n}

\* ----------------------------------------------------------- pure helpers
\* filter_logs_to_export
filter_logs_to_export(names) ==
    SelectSeq(names, LAMBDA n : n \in cw_logs_to_export)

\* variant: the configured value is used as it is
EffectiveTimeOut_NoDefault(to) == to

\* get_tsk_status line 279: if not time_out: time_out = 300
EffectiveTimeOut(to) == IF to = 0 THEN DefaultTimeOut ELSE to

\* variant: the comparison is not strict
TimedOut_Geq(tt, to) == tt >= to

\* get_tsk_status line 286: t > int(time_out)
TimedOut(tt, to) == tt > to

\* variant: the code is compared with a string the provider never sends
NotCompleted_Typo(code) == code # "COMPLETE"

\* get_tsk_status line 290: tsk_info['status']['code'] != "COMPLETED"
NotCompleted(code) == code # "COMPLETED"

\* variant: the counter grows by the seed instead of doubling
Backoff_Linear(tt) == tt + BackoffSeed

\* variant: the counter triples
Backoff_Triple(tt) == tt * 3

\* get_tsk_status line 292: t *= 2
Backoff(tt) == tt * 2

\* get_tsk_status line 287: f"Task:{tsk_id} is still running. Status:{code}"
StillRunningMsg(id, code) == [kind |-> "still_running", tsk |-> id, detail |-> code]

\* variant: the message leaves the task id out
UnableToVerifyMsg_NoTask(id, e) == [kind |-> "unable_to_verify", tsk |-> 0, detail |-> e]

\* get_tsk_status line 299: f"Unable to verify status of task:{tsk_id}. ERROR:{e}"
UnableToVerifyMsg(id, e) == [kind |-> "unable_to_verify", tsk |-> id, detail |-> e]

\* variant: the status is looked at before the counter
PollStep_CompletedFirst(tt, to, id, info, r) ==
    IF ~NotCompleted(info.code)
    THEN [t |-> tt,
          r |-> [r EXCEPT !.tsk_info = info, !.status = TRUE],
          next |-> "done"]
    ELSE IF TimedOut(tt, to)
    THEN [t |-> tt,
          r |-> [r EXCEPT !.error_message = StillRunningMsg(id, info.code),
                          !.tsk_info = info],
          next |-> "done"]
    ELSE [t |-> Backoff(tt), r |-> r, next |-> "sleep"]

\* get_tsk_status lines 285-297: what one poll that returned tsk_info does
\* to the counter tt and to resp_data r; next is where the loop goes
PollStep(tt, to, id, info, r) ==
    IF TimedOut(tt, to)
    THEN [t |-> tt,
          r |-> [r EXCEPT !.error_message = StillRunningMsg(id, info.code),
                          !.tsk_info = info],
          next |-> "done"]
    ELSE IF NotCompleted(info.code)
    THEN [t |-> Backoff(tt), r |-> r, next |-> "sleep"]
    ELSE [t |-> tt,
          r |-> [r EXCEPT !.tsk_info = info, !.status = TRUE],
          next |-> "done"]

\* get_tsk_status lines 298-300: a poll that raised
ErrorStep(id, e, r) ==
    [r |-> [r EXCEPT !.error_message = UnableToVerifyMsg(id, e)], next |-> "done"]

\* variant: only a 404 counts as a missing bucket
does_bucket_exists_Only404(outcome) ==
    IF outcome # "404"
    THEN [status |-> TRUE,  error_message |-> NoMsg]
    ELSE [status |-> FALSE,
          error_message |-> [kind |-> "ClientError", tsk |-> 0, detail |-> outcome]]

\* does_bucket_exists: outcome is "ok" or the ClientError code head_bucket raised
does_bucket_exists(outcome) ==
    IF outcome = "ok"
    THEN [status |-> TRUE,  error_message |-> NoMsg]
    ELSE [status |-> FALSE,
          error_message |-> [kind |-> "ClientError", tsk |-> 0, detail |-> outcome]]

\* variant: the call comes back while the poller is suspended in its sleep
TskReturned_Early(ppc) == ppc \in {"done", "sleep"}

\* export_cw_logs_to_s3 line 255: the call of get_tsk_status comes back when
\* the loop has left through a break or the except clause, at position ppc
TskReturned(ppc) == ppc = "done"

\* variant: the loop steps over every other log group
NextIdx_Skip(i) == i + 2

\* lambda_handler line 346: the for loop moves to the next log group
NextIdx(i) == i + 1

\* variant: the test never finds the filtered list empty
NothingToExport_Never(f) == FALSE

\* lambda_handler line 328, filter_logs_to_export line 205:
\* not (f_lgs status or f_lgs log_groups), status being set by the first match
NothingToExport(f) == ~(Len(f) > 0 \/ f # <<>>)

\* variant: the run is reported successful only if every export was
RunStatus_AllOk(tasks) == \A i \in 1..Len(tasks) : tasks[i].status

\* lambda_handler line 352: resp_data['status'] = True
RunStatus(tasks) == TRUE

\* variant: the same name is handed out every time
gen_uuid_Fixed(n) == 0

\* gen_uuid: str(uuid.uuid4()); n numbers the calls, each draws a new value
gen_uuid(n) == n

\* variant: the value given is used even when it is 0
EffectiveRetention_NoDefault(r) == r

\* export_cw_logs_to_s3 line 227: if not retention_days: retention_days = 90
EffectiveRetention(r) == IF r = 0 THEN DefaultRetention ELSE r

\* export_cw_logs_to_s3 lines 232, 234: now_time - datetime.timedelta(days = k)
minus_days(dt, k) == [dt EXCEPT !.day = @ - k]

\* datetime.timestamp(): the double nearest to s + us / 10^6 seconds since
\* the epoch. Between 2^30 and 2^31 seconds (2004 to 2038) doubles are spaced
\* 2^-22 apart, so the value is s whole seconds and frac units of 2^-22 s,
\* frac the integer nearest to us * 2^22 / 10^6 = us * 65536 / 15625.
timestamp(dt) ==
    LET q   == dt.us \div 15625
        rem == dt.us % 15625
    IN  [s    |-> dt.day * DaySeconds + dt.sec,
         frac |-> 65536 * q + (2 * rem * 65536 + 15625) \div 31250]

\* export_cw_logs_to_s3 lines 235-236: int(ts * 1000). The product is the
\* double nearest to 1000 s + frac * 125 / 2^19 milliseconds; between 2^40 and
\* 2^41 doubles are spaced 2^-12 apart, so it is h units of 2^-12 ms above
\* 1000 s, h the integer nearest to frac * 125 / 128 (the even one on a tie),
\* and int() drops the part below one millisecond.
epoch_ms(ts) ==
    LET a == (125 * ts.frac) \div 128
        b == (125 * ts.frac) % 128
        h == a + (IF b > 64 THEN 1 ELSE IF b = 64 THEN a % 2 ELSE 0)
    IN  [s |-> ts.s, ms |-> h \div 4096]

\* variant: the window starts at the retention boundary and ends a day later
ExportWindow_Shifted(now, r) ==
    [f_time |-> epoch_ms(timestamp(minus_days(now, EffectiveRetention(r)))),
     t_time |-> epoch_ms(timestamp(minus_days(now, EffectiveRetention(r) - 1)))]

\* export_cw_logs_to_s3 lines 227-236: the window of the export made at now
ExportWindow(now, r) ==
    [f_time |-> epoch_ms(timestamp(minus_days(now, EffectiveRetention(r) + 1))),
     t_time |-> epoch_ms(timestamp(minus_days(now, EffectiveRetention(r))))]

\* the wall clock d microseconds later
Advance(dt, d) ==
    LET us  == dt.us + d
        sec == dt.sec + us \div 1000000
    IN  [day |-> dt.day + sec \div DaySeconds,
         sec |-> sec % DaySeconds,
         us  |-> us % 1000000]

\* export_cw_logs_to_s3 lines 256-260: the outcome built from the poller's r
\* (the condition reads resp, the bucket check, as the source does)
ExportOutcome(bucket_resp, r) ==
    IF bucket_resp.status
    THEN [status |-> TRUE,  task_info |-> r.tsk_info, error_message |-> NoMsg]
    ELSE [status |-> FALSE, task_info |-> NoInfo,     error_message |-> r.error_message]

\* ------------------------------------------------------------------- Init
\* the state lambda_handler starts in, for given sets of configurations
InitOver(timeouts, listings, retentions, clocks) ==
    /\ time_out \in timeouts
    /\ lgs \in listings
    /\ retention_days \in retentions
    /\ clock \in clocks
    /\ ticks = 0
    /\ f_lgs = <<>>
    /\ pc = "start"
    /\ idx = 1
    /\ handler_resp = [status |-> FALSE, error_message |-> "", export_tasks |-> <<>>]
    /\ resp = [status |-> FALSE, error_message |-> NoMsg]
    /\ export_resp = [status |-> FALSE, task_info |-> NoInfo, error_message |-> NoMsg]
    /\ window = NoWindow
    /\ p_pc = "idle"
    /\ tsk_id = 0
    /\ p_time_out = 0
    /\ t = 0
    /\ tsk_resp = [status |-> FALSE, tsk_info |-> NoInfo, error_message |-> NoMsg]
    /\ next_task = 1
    /\ next_uuid = 1
    /\ active = {}
    /\ requests = <<>>
    /\ run = 1
    /\ t_hist = <<>>
    /\ sleeps = <<>>
    /\ last_info = NoInfo
    /\ last_err = ""
    /\ log = <<>>
    /\ tsk_results = [i \in Positions |-> NoTask]

\* one invocation, every timeout and listing, the retention of global_vars
Init ==
    InitOver(TimeOuts, SeqsNoDup(GroupNames, MaxGroups), {DefaultRetention},
             {[day |-> 20000, sec |-> 43200, us |-> 0]})

\* invocations in a row over a listing with one group to export, every
\* retention and clock reading; the time_out lets the poller sleep once
RunsInit ==
    InitOver({BackoffSeed}, {<<"lg_x", "lg_a">>},
             Retentions, ClockStarts)

pollerVars == <<p_pc, tsk_id, p_time_out, t, tsk_resp, t_hist, sleeps, last_info, last_err>>

\* lambda_handler lines 312-336: configuration, listing, filter, empty check
Start ==
    /\ pc = "start"
    /\ f_lgs' = filter_logs_to_export(lgs)
    /\ IF NothingToExport(f_lgs')
       THEN /\ pc' = "done"
            /\ handler_resp' = [handler_resp EXCEPT !.error_message = "no_log_group_matching"]
       ELSE /\ pc' = IF 1 <= Len(f_lgs') THEN "check" ELSE "finish"
            /\ UNCHANGED handler_resp
    /\ UNCHANGED <<time_out, lgs, idx, resp, export_resp, next_task,
                   log, tsk_results>>
    /\ UNCHANGED pollerVars
    /\ UNCHANGED <<retention_days, clock, ticks, window, next_uuid, active, requests, run>>

\* lambda_handler lines 321-325: the listing failed
ListingFails ==
    /\ pc = "start"
    /\ pc' = "done"
    /\ handler_resp' = [handler_resp EXCEPT !.error_message = "listing_error"]
    /\ UNCHANGED <<time_out, lgs, f_lgs, idx, resp, export_resp, next_task,
                   log, tsk_results>>
    /\ UNCHANGED pollerVars
    /\ UNCHANGED <<retention_days, clock, ticks, window, next_uuid, active, requests, run>>

\* lambda_handler line 347, export_cw_logs_to_s3 lines 226-243:
\* the call for f_lgs[idx] up to the bucket check, which answers
CheckBucket ==
    /\ pc = "check"
    /\ window' = ExportWindow(clock, retention_days)
    /\ \E outcome \in {"ok"} \cup BucketErrors :
          /\ resp' = does_bucket_exists(outcome)
          /\ IF resp'.status
             THEN /\ pc' = "submit"
                  /\ export_resp' = [status |-> FALSE, task_info |-> NoInfo,
                                     error_message |-> NoMsg]
             ELSE /\ pc' = "ret"
                  /\ export_resp' = [status |-> FALSE, task_info |-> NoInfo,
                                     error_message |-> resp'.error_message]
          /\ log' = Append(log, [op |-> "head_bucket", pos |-> idx, res |-> outcome])
    /\ UNCHANGED <<time_out, lgs, f_lgs, idx, handler_resp, next_task,
                   tsk_results>>
    /\ UNCHANGED pollerVars
    /\ UNCHANGED <<retention_days, clock, ticks, next_uuid, active, requests, run>>

\* does_bucket_exists lines 145-149: head_bucket raises something that is not
\* a ClientError; nothing catches it and lambda_handler ends with the exception
CheckBucketCrash ==
    /\ pc = "check"
    /\ window' = ExportWindow(clock, retention_days)
    /\ pc' = "crashed"
    /\ log' = Append(log, [op |-> "head_bucket", pos |-> idx, res |-> "raised"])
    /\ UNCHANGED <<time_out, lgs, f_lgs, idx, handler_resp, resp, export_resp,
                   next_task, tsk_results>>
    /\ UNCHANGED pollerVars
    /\ UNCHANGED <<retention_days, clock, ticks, next_uuid, active, requests, run>>

\* export_cw_logs_to_s3 lines 244-255, get_tsk_status lines 277-280:
\* create_export_task returns a task id and the poller starts; the provider
\* accepts a task only while no other is pending or running (line 29)
Submit ==
    /\ pc = "submit"
    /\ active = {}
    /\ requests' = Append(requests, [run |-> run, pos |-> idx, taskName |-> gen_uuid(next_uuid),
                                     logGroupName |-> f_lgs[idx],
                                     fromTime |-> window.f_time, to |-> window.t_time,
                                     at |-> clock])
    /\ next_uuid' = next_uuid + 1
    /\ active' = {next_task}
    /\ log' = Append(log, [op |-> "create_export_task", pos |-> idx, res |-> "ok"])
    /\ tsk_id' = next_task
    /\ next_task' = next_task + 1
    /\ tsk_resp' = [status |-> FALSE, tsk_info |-> NoInfo, error_message |-> NoMsg]
    /\ p_time_out' = EffectiveTimeOut(time_out)
    /\ t' = BackoffSeed
    /\ p_pc' = "poll"
    /\ t_hist' = <<>>
    /\ sleeps' = <<>>
    /\ last_info' = NoInfo
    /\ last_err' = ""
    /\ pc' = "wait"
    /\ UNCHANGED <<time_out, lgs, f_lgs, idx, handler_resp, resp, export_resp,
                   tsk_results>>
    /\ UNCHANGED <<retention_days, clock, ticks, window, run>>

\* export_cw_logs_to_s3 lines 246-253, 261-262: create_export_task raises,
\* because another task is active or for any other reason
SubmitFails ==
    /\ pc = "submit"
    /\ requests' = Append(requests, [run |-> run, pos |-> idx, taskName |-> gen_uuid(next_uuid),
                                     logGroupName |-> f_lgs[idx],
                                     fromTime |-> window.f_time, to |-> window.t_time,
                                     at |-> clock])
    /\ next_uuid' = next_uuid + 1
    /\ \E e \in ProviderErrors :
          /\ export_resp' = [export_resp EXCEPT
                               !.error_message = [kind |-> "Exception", tsk |-> 0, detail |-> e]]
          /\ log' = Append(log, [op |-> "create_export_task", pos |-> idx, res |-> e])
    /\ pc' = "ret"
    /\ UNCHANGED <<time_out, lgs, f_lgs, idx, handler_resp, resp, next_task,
                   tsk_results>>
    /\ UNCHANGED pollerVars
    /\ UNCHANGED <<retention_days, clock, ticks, window, active, run>>

\* get_tsk_status lines 284-297: describe_export_tasks answers with a status,
\* which is the state the provider holds the task in at that moment
Poll ==
    /\ pc = "wait"
    /\ p_pc = "poll"
    /\ \E code \in StatusCodes :
          LET info == [taskId |-> tsk_id, code |-> code]
              step == PollStep(t, p_time_out, tsk_id, info, tsk_resp)
          IN  /\ t' = step.t
              /\ tsk_resp' = step.r
              /\ p_pc' = step.next
              /\ last_info' = info
              /\ active' = IF code \in {"PENDING", "RUNNING"}
                            THEN active \cup {tsk_id} ELSE active \ {tsk_id}
    /\ last_err' = ""
    /\ t_hist' = Append(t_hist, t)
    /\ UNCHANGED <<time_out, lgs, f_lgs, pc, idx, handler_resp, resp, export_resp,
                   tsk_id, p_time_out, next_task, sleeps, log, tsk_results>>
    /\ UNCHANGED <<retention_days, clock, ticks, window, next_uuid, requests, run>>

\* get_tsk_status lines 284-285, 298-299: the poll raises
PollRaises ==
    /\ pc = "wait"
    /\ p_pc = "poll"
    /\ \E e \in ProviderErrors :
          LET step == ErrorStep(tsk_id, e, tsk_resp)
          IN  /\ tsk_resp' = step.r
              /\ p_pc' = step.next
              /\ last_err' = e
    /\ last_info' = NoInfo
    /\ t_hist' = Append(t_hist, t)
    /\ UNCHANGED <<time_out, lgs, f_lgs, pc, idx, handler_resp, resp, export_resp,
                   tsk_id, p_time_out, t, next_task, sleeps, log, tsk_results>>
    /\ UNCHANGED <<retention_days, clock, ticks, window, next_uuid, active, requests, run>>

\* get_tsk_status line 293: time.sleep(t)
Sleep ==
    /\ pc = "wait"
    /\ p_pc = "sleep"
    /\ sleeps' = Append(sleeps, t)
    /\ p_pc' = "poll"
    /\ UNCHANGED <<time_out, lgs, f_lgs, pc, idx, handler_resp, resp, export_resp,
                   tsk_id, p_time_out, t, tsk_resp, next_task, t_hist, last_info,
                   last_err, log, tsk_results>>
    /\ UNCHANGED <<retention_days, clock, ticks, window, next_uuid, active, requests, run>>

\* get_tsk_status line 300, export_cw_logs_to_s3 lines 255-260:
\* the poller returns r and the export builds its outcome
TskReturn ==
    /\ pc = "wait"
    /\ TskReturned(p_pc)
    /\ export_resp' = ExportOutcome(resp, tsk_resp)
    /\ tsk_results' = [tsk_results EXCEPT ![idx] =
                          [status |-> tsk_resp.status, tsk_info |-> tsk_resp.tsk_info,
                           error_message |-> tsk_resp.error_message, called |-> TRUE]]
    /\ log' = Append(log, [op |-> "get_tsk_status", pos |-> idx,
                            res |-> IF tsk_resp.status THEN "success"
                                    ELSE tsk_resp.error_message.kind])
    /\ pc' = "ret"
    /\ UNCHANGED <<time_out, lgs, f_lgs, idx, handler_resp, resp, next_task>>
    /\ UNCHANGED pollerVars
    /\ UNCHANGED <<retention_days, clock, ticks, window, next_uuid, active, requests, run>>

\* export_cw_logs_to_s3 line 263, lambda_handler lines 346-349:
\* the export returns, its outcome is appended and the loop moves on
Record ==
    /\ pc = "ret"
    /\ handler_resp' = [handler_resp EXCEPT !.export_tasks = Append(@, export_resp)]
    /\ idx' = NextIdx(idx)
    /\ pc' = IF idx' <= Len(f_lgs) THEN "check" ELSE "finish"
    /\ resp' = [status |-> FALSE, error_message |-> NoMsg]
    /\ export_resp' = [status |-> FALSE, task_info |-> NoInfo, error_message |-> NoMsg]
    /\ p_pc' = "idle"
    /\ tsk_id' = 0
    /\ p_time_out' = 0
    /\ t' = 0
    /\ tsk_resp' = [status |-> FALSE, tsk_info |-> NoInfo, error_message |-> NoMsg]
    /\ t_hist' = <<>>
    /\ sleeps' = <<>>
    /\ last_info' = NoInfo
    /\ last_err' = ""
    /\ log' = Append(log, [op |-> "append", pos |-> idx, res |-> ""])
    /\ window' = NoWindow
    /\ UNCHANGED <<time_out, lgs, f_lgs, next_task, tsk_results>>
    /\ UNCHANGED <<retention_days, clock, ticks, next_uuid, active, requests, run>>

\* lambda_handler lines 350-353: the loop is over
Finish ==
    /\ pc = "finish"
    /\ handler_resp' = [handler_resp EXCEPT !.status = RunStatus(handler_resp.export_tasks)]
    /\ pc' = "done"
    /\ UNCHANGED <<time_out, lgs, f_lgs, idx, resp, export_resp, next_task,
                   log, tsk_results>>
    /\ UNCHANGED pollerVars
    /\ UNCHANGED <<retention_days, clock, ticks, window, next_uuid, active, requests, run>>

\* provider: an export task that was pending or running comes to its end
TaskEnds ==
    /\ \E id \in active : active' = active \ {id}
    /\ UNCHANGED <<time_out, lgs, f_lgs, pc, idx, handler_resp, resp, export_resp,
                   next_task, log, tsk_results>>
    /\ UNCHANGED pollerVars
    /\ UNCHANGED <<retention_days, clock, ticks, window, next_uuid, requests, run>>

\* time passes before export_cw_logs_to_s3 line 229 reads the clock
Tick ==
    /\ pc = "check"
    /\ ticks < MaxTicks
    /\ \E d \in Elapsed : clock' = Advance(clock, d)
    /\ ticks' = ticks + 1
    /\ UNCHANGED <<time_out, lgs, f_lgs, pc, idx, handler_resp, resp, export_resp,
                   next_task, log, tsk_results>>
    /\ UNCHANGED pollerVars
    /\ UNCHANGED <<retention_days, window, next_uuid, active, requests, run>>

\* lambda_handler is invoked again (line 302, line 355) after an invocation
\* that returned or ended with an exception: its locals start afresh, the
\* configuration, the clock and the provider go on
Reinvoke ==
    /\ pc \in {"done", "crashed"}
    /\ run < MaxRuns
    /\ run' = run + 1
    /\ pc' = "start"
    /\ f_lgs' = <<>>
    /\ idx' = 1
    /\ handler_resp' = [status |-> FALSE, error_message |-> "", export_tasks |-> <<>>]
    /\ resp' = [status |-> FALSE, error_message |-> NoMsg]
    /\ export_resp' = [status |-> FALSE, task_info |-> NoInfo, error_message |-> NoMsg]
    /\ window' = NoWindow
    /\ p_pc' = "idle"
    /\ tsk_id' = 0
    /\ p_time_out' = 0
    /\ t' = 0
    /\ tsk_resp' = [status |-> FALSE, tsk_info |-> NoInfo, error_message |-> NoMsg]
    /\ t_hist' = <<>>
    /\ sleeps' = <<>>
    /\ last_info' = NoInfo
    /\ last_err' = ""
    /\ log' = <<>>
    /\ tsk_results' = [i \in Positions |-> NoTask]
    /\ UNCHANGED <<time_out, lgs, retention_days, clock, ticks, next_task,
                   next_uuid, active, requests>>

Next ==
    \/ Start
    \/ ListingFails
    \/ CheckBucket
    \/ CheckBucketCrash
    \/ Submit
    \/ SubmitFails
    \/ Poll
    \/ PollRaises
    \/ Sleep
    \/ TskReturn
    \/ Record
    \/ Finish
    \/ TaskEnds

Spec == Init /\ [][Next]_vars

\* the handler always takes its next step; every provider call answers
LiveSpec == Init /\ [][Next]_vars /\ WF_vars(Next)

\* lambda_handler invoked up to MaxRuns times while the clock advances
RunsNext ==
    \/ Next
    \/ Tick
    \/ Reinvoke

RunsSpec == RunsInit /\ [][RunsNext]_vars

\* ------------------------------------------------------ claim vocabulary
\* the timeout the poller works with: the configured one, 300 when it is 0
Eff == IF time_out = 0 THEN 300 ELSE time_out

\* the counter value the latest poll was made at
LastCounter == t_hist[Len(t_hist)]

PollerEnded          == p_pc = "done"
PollerEndedCompleted == p_pc = "done" /\ tsk_resp.status
PollerEndedTimedOut  == p_pc = "done" /\ tsk_resp.error_message.kind = "still_running"
PollerEndedError     == p_pc = "done" /\ tsk_resp.error_message.kind = "unable_to_verify"

\* the latest poll of the current task answered with a status / raised
PollAnswered == p_pc # "idle" /\ last_info # NoInfo
PollRaised   == p_pc # "idle" /\ last_err # ""

\* least k >= 0 with 3 * 2^k > T
LeastK(T) ==
    CHOOSE k \in 0..(IF T > 0 THEN T ELSE 0) :
        /\ 3 * 2^k > T
        /\ \A j \in 0..(k - 1) : 3 * 2^j <= T

\* ---------------------------------------------------------------- claims
\* C1: every recorded outcome has status true only if that source's poller
\* ended with success, and after a poll timeout or a poll transport error the
\* outcome has status false and carries the poller's error message.
C1_OutcomeFollowsPoller ==
    \A i \in 1..Len(handler_resp.export_tasks) :
        LET o == handler_resp.export_tasks[i]
            r == tsk_results[i]
        IN  /\ o.status => (r.called /\ r.status /\ r.tsk_info.code = "COMPLETED")
            /\ (r.called /\ r.error_message.kind \in {"still_running", "unable_to_verify"})
                  => (o.status = FALSE /\ o.error_message = r.error_message)

\* C2 as stated: any poll on which the provider reports COMPLETED makes the
\* poller end with success and the payload of that poll, whatever the timeout.
C2_CompletedAlwaysSucceeds ==
    (PollAnswered /\ last_info.code = "COMPLETED")
        => (PollerEndedCompleted /\ tsk_resp.tsk_info = last_info)

\* C2 amended: a poll on which the provider reports COMPLETED while the
\* counter does not exceed the effective timeout makes the poller end with
\* success and the payload of that poll.
C2_CompletedWithinTimeoutSucceeds ==
    (PollAnswered /\ last_info.code = "COMPLETED" /\ LastCounter <= Eff)
        => (PollerEndedCompleted /\ tsk_resp.tsk_info = last_info
            /\ tsk_resp.error_message = NoMsg)

C2_Witness ==
    /\ PollAnswered /\ last_info.code = "COMPLETED" /\ LastCounter <= Eff
    /\ Len(sleeps) >= 1
    /\ PollerEndedCompleted

\* what the counter check of a poll must have produced, against timeout T:
\* above T the poller ended TIMED_OUT, failed, naming the task and the status
\* code of that poll; at or below T it did not time out
C3_State(T) ==
    /\ (PollAnswered /\ LastCounter > T)
          => /\ PollerEndedTimedOut
             /\ tsk_resp.status = FALSE
             /\ tsk_resp.error_message.tsk = tsk_id
             /\ tsk_resp.error_message.detail = last_info.code
    /\ (PollAnswered /\ LastCounter <= T) => ~PollerEndedTimedOut

\* C3 as stated: the counter is compared with the configured timeout; a poll
\* made with the counter above it ends the poller TIMED_OUT whatever status it
\* returned, with no further poll or sleep; at or below it there is no timeout.
C3_TimedOutAboveConfigured ==
    /\ [](C3_State(time_out))
    /\ [][(PollerEndedTimedOut /\ tsk_id' = tsk_id)
             => (t_hist' = t_hist /\ sleeps' = sleeps)]_vars

\* C3 amended: the same with the effective timeout (the configured value,
\* 300 when the configured value is 0).
C3_TimedOutAboveEffective ==
    /\ [](C3_State(Eff))
    /\ [][(PollerEndedTimedOut /\ tsk_id' = tsk_id)
             => (t_hist' = t_hist /\ sleeps' = sleeps)]_vars

C3_Witness ==
    /\ PollerEndedTimedOut
    /\ last_info.code = "COMPLETED"
    /\ Len(sleeps) >= 1
    /\ pc = "ret"

\* C4: once a poll returns FAILED or CANCELLED the poller neither sleeps nor
\* polls again for that task.
C4_FailedCancelledTerminal ==
    [][(PollAnswered /\ last_info.code \in {"FAILED", "CANCELLED"} /\ tsk_id' = tsk_id)
          => (t_hist' = t_hist /\ sleeps' = sleeps)]_vars

\* what a poller that only ever saw non-COMPLETED answers must look like
\* against timeout T: the counter went 3, 6, 12, ... and TIMED_OUT came at
\* the first counter above T, after LeastK(T) sleeps
C5_State(T) ==
    /\ \A i \in 1..Len(t_hist) : t_hist[i] = 3 * 2^(i - 1)
    /\ (PollerEnded /\ PollAnswered /\ last_info.code # "COMPLETED")
          => /\ PollerEndedTimedOut
             /\ Len(sleeps) = LeastK(T)
             /\ Len(t_hist) = LeastK(T) + 1
             /\ LastCounter = 3 * 2^LeastK(T)
             /\ LastCounter > T
             /\ \A i \in 1..(Len(t_hist) - 1) : t_hist[i] <= T
    /\ (time_out = 10 /\ PollerEnded /\ PollAnswered /\ last_info.code # "COMPLETED")
          => (t_hist = <<3, 6, 12>> /\ Len(sleeps) = 2)

\* C5 as stated: with a provider that never reports COMPLETED and configured
\* timeout T the counter goes 3, 6, 12, ... and the poller ends TIMED_OUT after
\* exactly k sleeps, k least with 3*2^k > T (T = 10: 3 -> 6 -> 12, 2 sleeps).
C5_BackoffAgainstConfigured == C5_State(time_out)

\* C5 amended: the same with T the effective timeout (the configured value,
\* 300 when the configured value is 0).
C5_BackoffAgainstEffective == C5_State(Eff)

C5_Witness ==
    /\ time_out = 10
    /\ PollerEndedTimedOut
    /\ last_info.code = "RUNNING"
    /\ t_hist = <<3, 6, 12>>
    /\ Len(sleeps) = 2

\* the first poll answered COMPLETED: success, one poll, no sleep
C6_State ==
    (PollAnswered /\ Len(t_hist) = 1 /\ last_info.code = "COMPLETED")
        => (PollerEndedCompleted /\ sleeps = <<>>)

\* C6 as stated: for every configured timeout, COMPLETED on the first poll
\* gives success after exactly one poll and zero sleeps.
C6_FirstPollCompletedAnyTimeout ==
    /\ []C6_State
    /\ [][(PollerEndedCompleted /\ tsk_id' = tsk_id)
             => (t_hist' = t_hist /\ sleeps' = sleeps)]_vars

\* C6 amended: for every configured timeout whose effective value is at
\* least 3, COMPLETED on the first poll gives success after exactly one poll
\* and zero sleeps.
C6_FirstPollCompletedFromSeed ==
    /\ [](Eff >= 3 => C6_State)
    /\ [][(PollerEndedCompleted /\ tsk_id' = tsk_id)
             => (t_hist' = t_hist /\ sleeps' = sleeps)]_vars

C6_Witness ==
    /\ Eff >= 3
    /\ PollerEndedCompleted
    /\ Len(t_hist) = 1
    /\ sleeps = <<>>
    /\ pc = "ret"

\* C7: the poller always reaches a terminal outcome, after a number of polls
\* bounded by a function of the timeout alone.
C7_PollerTerminates ==
    /\ [](Len(t_hist) <= LeastK(Eff) + 1)
    /\ ((p_pc \in {"poll", "sleep"}) ~> PollerEnded)

C7_Witness ==
    /\ time_out = 0
    /\ PollerEndedTimedOut
    /\ last_info.code = "PENDING"
    /\ Len(t_hist) = LeastK(Eff) + 1

\* C8: a poll that raises ends the poller at once with a failure whose
\* message includes the task id and the error; no further poll or sleep.
C8_PollErrorEndsPoller ==
    /\ [](PollRaised => /\ PollerEndedError
                        /\ tsk_resp.status = FALSE
                        /\ tsk_resp.error_message.tsk = tsk_id
                        /\ tsk_resp.error_message.detail = last_err)
    /\ [][(PollRaised /\ tsk_id' = tsk_id)
             => (t_hist' = t_hist /\ sleeps' = sleeps)]_vars

C8_Witness ==
    /\ PollRaised
    /\ Len(sleeps) >= 1
    /\ pc = "ret"

\* positions in log of the calls op made for loop position i
Events(op, i) == {n \in 1..Len(log) : log[n].op = op /\ log[n].pos = i}
EventsWith(op, i, results) == {n \in Events(op, i) : log[n].res \in results}

TerminalResults == {"success", "still_running", "unable_to_verify"}

\* C9: per source of the filtered list, one create_export_task call when its
\* bucket check succeeded and none when it failed; never more than one.
C9_OneSubmissionPerSource ==
    /\ \A i \in Positions :
          /\ Cardinality(Events("create_export_task", i)) <= 1
          /\ Cardinality(Events("head_bucket", i)) <= 1
          /\ (EventsWith("head_bucket", i, {"ok"}) # {} /\ ~(pc = "submit" /\ idx = i))
                => Cardinality(Events("create_export_task", i)) = 1
          /\ EventsWith("head_bucket", i, {"ok"}) = {}
                => Events("create_export_task", i) = {}
          /\ i > Len(f_lgs) => Events("head_bucket", i) = {}
    /\ (pc = "done" /\ handler_resp.status)
          => \A i \in 1..Len(f_lgs) : Cardinality(Events("head_bucket", i)) = 1

C9_Witness ==
    /\ pc = "done"
    /\ Len(f_lgs) = 2
    /\ EventsWith("head_bucket", 1, BucketErrors) # {}
    /\ EventsWith("create_export_task", 2, {"ok"}) # {}
    /\ EventsWith("get_tsk_status", 2, {"still_running"}) # {}

\* loop positions whose task was created and whose poller has not ended
Unterminated ==
    {i \in Positions :
        /\ EventsWith("create_export_task", i, {"ok"}) # {}
        /\ EventsWith("get_tsk_status", i, TerminalResults) = {}
        /\ ~(i = idx /\ PollerEnded)}

\* C10: sources are processed one at a time in list order; nothing is done
\* for a source before every earlier source's poller has ended and its outcome
\* is recorded; never two submitted tasks with unterminated pollers.
C10_OneSourceAtATime ==
    /\ \A m, n \in 1..Len(log) : m < n => log[m].pos <= log[n].pos
    /\ \A n \in 1..Len(log) : \A i \in 1..(log[n].pos - 1) :
          /\ \E m \in Events("append", i) : m < n
          /\ EventsWith("create_export_task", i, {"ok"}) # {}
                => \E m \in EventsWith("get_tsk_status", i, TerminalResults) : m < n
    /\ Len(handler_resp.export_tasks) = Cardinality({n \in 1..Len(log) : log[n].op = "append"})
    /\ Cardinality(Unterminated) <= 1
    /\ Unterminated # {} => (Unterminated = {idx} /\ pc = "wait")

C10_Witness ==
    /\ pc = "wait"
    /\ idx = 2
    /\ p_pc = "sleep"
    /\ EventsWith("get_tsk_status", 1, {"still_running"}) # {}

\* the bucket check made for loop position i failed: head_bucket raised
BucketCheckFailed(i) == EventsWith("head_bucket", i, BucketErrors \cup {"raised"}) # {}

\* C11: a failed bucket check aborts that source only: no task is submitted
\* and no poll made for it, its outcome is recorded with status false and the
\* validator's message, and the later sources are still processed; with
\* [A, B], A failing its check and B succeeding, the outcomes are [false, true].
C11_ValidationFailureSkipsOnlyThatSource ==
    /\ pc # "crashed"
    /\ \A i \in Positions : BucketCheckFailed(i) =>
          /\ Events("create_export_task", i) = {}
          /\ Events("get_tsk_status", i) = {}
          /\ i <= Len(handler_resp.export_tasks) =>
                /\ handler_resp.export_tasks[i].status = FALSE
                /\ handler_resp.export_tasks[i].error_message.kind = "ClientError"
                /\ \E n \in Events("head_bucket", i) :
                      handler_resp.export_tasks[i].error_message.detail = log[n].res
          /\ pc = "done" =>
                \A j \in (i + 1)..Len(f_lgs) :
                    /\ Events("head_bucket", j) # {}
                    /\ j <= Len(handler_resp.export_tasks)
    /\ (pc = "done" /\ Len(f_lgs) = 2 /\ BucketCheckFailed(1)
          /\ EventsWith("get_tsk_status", 2, {"success"}) # {})
          => (/\ Len(handler_resp.export_tasks) = 2
              /\ handler_resp.export_tasks[1].status = FALSE
              /\ handler_resp.export_tasks[2].status = TRUE)

\* the outcome recorded at position i is the one of the i-th filtered group:
\* it carries what the calls made for loop position i produced
OutcomeOfPosition(i) ==
    LET o == handler_resp.export_tasks[i]
    IN  /\ (o.error_message.kind = "ClientError") = BucketCheckFailed(i)
        /\ o.error_message.kind = "ClientError"
              => \E n \in Events("head_bucket", i) : o.error_message.detail = log[n].res
        /\ (o.error_message.kind = "Exception")
              = (EventsWith("create_export_task", i, ProviderErrors) # {})
        /\ tsk_results[i].called = (EventsWith("create_export_task", i, {"ok"}) # {})
        /\ tsk_results[i].called => o.task_info = tsk_results[i].tsk_info
        /\ \E n \in Events("append", i) :
              Cardinality({m \in 1..n : log[m].op = "append"}) = i

\* C12: a run over a non-empty filtered list that returns has one outcome per
\* source of the list, in the order of the list, whatever happened per source.
C12_OneOutcomePerSourceInOrder ==
    (pc = "done" /\ f_lgs # <<>>)
        => /\ Len(handler_resp.export_tasks) = Len(f_lgs)
           /\ \A i \in 1..Len(f_lgs) : OutcomeOfPosition(i)

C12_Witness ==
    /\ pc = "done"
    /\ Len(f_lgs) = 2
    /\ handler_resp.export_tasks[1].error_message.kind = "Exception"
    /\ handler_resp.export_tasks[2].task_info.code = "RUNNING"
    /\ tsk_results[2].error_message.kind = "still_running"

\* the listing succeeded / some listed group is one of those to export
ListingSucceeded == handler_resp.error_message # "listing_error"
SomeGroupMatches == \E i \in 1..Len(lgs) : lgs[i] \in cw_logs_to_export

C14_EmptyListFailsRun ==
    (pc = "done" /\ ListingSucceeded /\ ~SomeGroupMatches)
        => /\ handler_resp.status = FALSE
           /\ handler_resp.error_message # ""
           /\ handler_resp.export_tasks = <<>>
           /\ log = <<>>
           /\ next_task = 1
           /\ t_hist = <<>>

C14_Witness ==
    /\ pc = "done"
    /\ lgs = <<"lg_x">>
    /\ handler_resp.error_message = "no_log_group_matching"

\* the retention the claim's r stands for when 0 counts as the default 90
EffRetention == IF retention_days = 0 THEN 90 ELSE retention_days

\* the instant k days before the clock reading at, in epoch milliseconds
\* (whole seconds and the milliseconds above them)
DaysBefore(at, k) ==
    [s |-> (at.day - k) * 86400 + at.sec, ms |-> at.us \div 1000]

\* milliseconds from instant x to instant y
MsBetween(x, y) == (y.s - x.s) * 1000 + (y.ms - x.ms)

\* request q carries the 24-hour window that ends r days before its reading
WindowFor(q, r) ==
    /\ q.to = DaysBefore(q.at, r)
    /\ q.fromTime = DaysBefore(q.at, r + 1)
    /\ MsBetween(q.fromTime, q.to) = 86400000
    /\ MsBetween(q.fromTime, q.to) > 0

SameSourceTwoRuns(n, m) ==
    /\ requests[n].logGroupName = requests[m].logGroupName
    /\ requests[n].run < requests[m].run

\* all request tokens sent so far differ from one another
TokensDistinct ==
    \A n, m \in 1..Len(requests) :
        n # m => requests[n].taskName # requests[m].taskName

\* in each run a source gets at most one request, and in the run that has
\* just returned each source whose bucket check passed got exactly one
OneRequestPerRunAndSource ==
    /\ \A n, m \in 1..Len(requests) :
          (requests[n].run = requests[m].run /\ requests[n].pos = requests[m].pos)
              => n = m
    /\ pc = "done" =>
          \A i \in Positions :
              (EventsWith("head_bucket", i, {"ok"}) # {})
                  = (\E n \in 1..Len(requests) :
                        requests[n].run = run /\ requests[n].pos = i)

\* C16 as stated: run twice with the same configuration and source list, each
\* source whose check passes gets one request per run, both for the same
\* window, and all request tokens of both runs are pairwise distinct.
C16_SameWindowDistinctTokens ==
    /\ OneRequestPerRunAndSource
    /\ TokensDistinct
    /\ \A n, m \in 1..Len(requests) :
          SameSourceTwoRuns(n, m)
              => /\ requests[n].to = requests[m].to
                 /\ requests[n].fromTime = requests[m].fromTime

\* C16 amended: each source whose check passes gets one request per run, each
\* for the 24-hour window counted from the clock reading of its own call: the
\* windows of two runs are as far apart as the two readings are in whole
\* milliseconds, and the same only when that is 0; all tokens are distinct.
C16_OwnWindowDistinctTokens ==
    /\ OneRequestPerRunAndSource
    /\ TokensDistinct
    /\ \A n, m \in 1..Len(requests) :
          SameSourceTwoRuns(n, m)
              => LET apart == MsBetween(DaysBefore(requests[n].at, 0),
                                        DaysBefore(requests[m].at, 0))
                 IN  /\ MsBetween(requests[n].to, requests[m].to) = apart
                     /\ MsBetween(requests[n].fromTime, requests[m].fromTime) = apart
                     /\ MsBetween(requests[m].fromTime, requests[m].to) = 86400000

C16_Witness ==
    /\ Len(requests) = 2
    /\ SameSourceTwoRuns(1, 2)
    /\ requests[1].taskName # requests[2].taskName
    /\ MsBetween(requests[1].to, requests[2].to) = 2000

\* each wait is double the one before it
WaitsDouble == \A i \in 2..Len(sleeps) : sleeps[i] = 2 * sleeps[i - 1]

\* C17 as stated: the first wait is the seed 3 and each later wait is double
\* the previous one (3, 6, 12, ...).
C17_WaitsFromSeed ==
    /\ Len(sleeps) >= 1 => sleeps[1] = 3
    /\ WaitsDouble

\* C17 amended: the first wait is 6, twice the seed, and each later wait is
\* double the previous one (6, 12, 24, ...).
C17_WaitsFromTwiceSeed ==
    /\ Len(sleeps) >= 1 => sleeps[1] = 6
    /\ WaitsDouble

C17_Witness ==
    /\ Len(sleeps) = 3
    /\ sleeps = <<6, 12, 24>>

\* create_export_task is called in this step (line 246): a request is sent
RequestSent == Len(requests') = Len(requests) + 1

\* C18: when the handler sends the export request of a source, no task
\* submitted earlier in the run is still pending or running at the provider;
\* so after a poller ended TIMED_OUT on a running task, the request of the
\* next source is not sent while that task is active.
C18_NoRequestWhileEarlierTaskActive ==
    [][RequestSent => active = {}]_vars

RECURSIVE SumOf(_)
SumOf(q) == IF q = <<>> THEN 0 ELSE q[1] + SumOf(Tail(q))

\* the time slept by the current poller stays within the budget for timeout T
C19_State(T) ==
    /\ T < 3  => SumOf(sleeps) = 0
    /\ T >= 3 => SumOf(sleeps) <= 4 * T - 6

\* C19 as stated: with the configured timeout T the poller sleeps 0 in all
\* when T < 3 and never more than 4*T - 6 when T >= 3.
C19_SleptAgainstConfigured == C19_State(time_out)

\* C19 amended: the same with T the effective timeout (the configured
\* value, 300 when the configured value is 0).
C19_SleptAgainstEffective == C19_State(Eff)

C19_Witness ==
    /\ PollerEndedTimedOut
    /\ time_out = 12
    /\ SumOf(sleeps) = 4 * 12 - 6
====
